---- MODULE Spec2Model ----
(***************************************************************************)
(* Model of the ERC-4337 smart-account bundler                             *)
(* (src/libs/erc4337/bundler.ts, kept as src/unnamed/part_005, with the    *)
(* factories of src/src/libs/erc4337/types.ts).                            *)
(*                                                                         *)
(* The bundler is one JavaScript object driven by async methods.  Every    *)
(* action below is one run-to-completion slice of such a method: the code  *)
(* between two awaits that touches the bundler's fields.  External calls   *)
(* (quote lookup, provider, entry point) are inputs whose outcome is       *)
(* chosen nondeterministically.                                            *)
(*                                                                         *)
(* Beside the bundler (Spec; SpecAdmit for arbitrary callers, SpecClose    *)
(* for overlapping closes, SpecDeadline for old intents, SpecProved for    *)
(* admissions behind the proof service) the module models the functions    *)
(* of zkProofs.ts (part_003) on bounded inputs (SpecVerify, SpecScore,     *)
(* SpecOrdering, SpecGenerate) and executeSmartAccountSwap of core/dex.ts  *)
(* (SpecSwap, and SpecWait for its polling promise alone).                 *)
(***************************************************************************)
EXTENDS Integers, Sequences, FiniteSets, TLC

\* Program constants (part_005:14-15)
BUNDLE_SIZE == 5
BUNDLE_TIMEOUT == 10000

\* Period of the status polls, the only periodic timers of the program
\* (BundleTracker.svelte:19, core/dex.ts:210)
PollInterval == 1000

\* Granularity of the modelled clock: Date.now() is observed at ages of
\* 0, BUNDLE_TIMEOUT, 2 * BUNDLE_TIMEOUT, ... of an intent admitted at 0
TimeStep == BUNDLE_TIMEOUT

\* Bounds of the model
MaxTicks == 2
MaxIntents == 5
MaxUserOps == 1
MaxFaults == 2

\* Hashes a caller may put into a UserOperation
UserOpHashes == {1}

\* Bounds of the admission model (SpecAdmit): callers may repeat a
\* UserOperation and may pass any request to createSwapIntent
AdmitMaxIntents == 3
AdmitMaxUserOps == 2

\* Life time of an intent: deadline = Date.now() + 20 * 60 * 1000
\* (types.ts:214, part_005:102)
INTENT_LIFETIME == 1200000

\* Bounds of the model of old intents (SpecDeadline): the clock is read
\* every DeadlineStep, DeadlineMaxTicks times
DeadlineStep == 600000
DeadlineMaxTicks == 3
DeadlineMaxIntents == 3

\* Bounds of the model of overlapping closes (SpecClose): enough time and
\* admissions for a second close to start while the first is awaiting
CloseMaxTicks == 4
CloseMaxIntents == 4

\* Maximum age of a proof (zkProofs.ts, part_003:72)
MAX_PROOF_AGE == 300000

\* Bounds of the proof models (SpecVerify, SpecOrdering): the clock is read
\* at VerifyStart + k * ProofTimeStep, a proof is verified MaxVerifyCalls
\* times, a list of proofs has up to MaxBatch entries
ProofTimeStep == 100000
VerifyStart == 500000
MaxProofTicks == 2
MaxVerifyCalls == 2
MaxBatch == 3

\* Bound of the proof generation model (SpecGenerate): calls made
MaxProofs == 2

\* Delay of the timeout of a protected swap (core/dex.ts:194)
WAIT_TIMEOUT == 30000

\* Bound of the model of that wait (SpecWait): the clock is read every
\* PollInterval, MaxWaitTicks times
MaxWaitTicks == 32

VARIABLES
  now,             \* Date.now()
  intents,         \* heap of SwapIntent objects, in creation order
  pendingIntents,  \* Map<string, SwapIntent>: entries [id, obj] in insertion order
  bundleQueue,     \* SwapIntent[]: references into intents
  activeBundles,   \* Map<string, Bundle>: Bundle objects in insertion order
  closes,          \* one record per started run of createBundle()
  presented,       \* FairOrderingProof[]: the proofs handed to the verifiers
  verdicts,        \* what the calls of the verifiers returned, in call order
  generated,       \* what the calls of generateFairOrderingProof returned
  wait             \* a run of executeSmartAccountSwap: its call of
                   \* createSwapIntent and its polling promise

\* State of the bundler object (the clock apart)
bundlerVars == <<intents, pendingIntents, bundleQueue, activeBundles, closes>>

\* State of the callers of libs/zk/zkProofs.ts (the module itself has
\* none) and of the caller of the bundler in core/dex.ts
callerVars == <<presented, verdicts, generated, wait>>

vars == <<now, intents, pendingIntents, bundleQueue, activeBundles, closes,
          presented, verdicts, generated, wait>>

\* No protected swap is waiting for its result
NoWait ==
  [intent |-> 0, started |-> 0, outcome |-> "none", settledAt |-> 0,
   timeoutArmed |-> FALSE, intervalArmed |-> FALSE,
   timeoutDue |-> FALSE, pollDue |-> FALSE, call |-> <<>>]

Min(a, b) == IF a < b THEN a ELSE b

MinOf(S) == CHOOSE x \in S : \A y \in S : x <= y

Range(s) == {s[i] : i \in 1..Len(s)}

(***************************************************************************)
(* Map.set / Map.get on an insertion-ordered map                           *)
(***************************************************************************)
MapHas(m, k) == \E i \in 1..Len(m) : m[i].id = k

MapSet(m, k, v) ==
  IF MapHas(m, k)
  THEN [i \in 1..Len(m) |-> IF m[i].id = k THEN [id |-> k, obj |-> v] ELSE m[i]]
  ELSE Append(m, [id |-> k, obj |-> v])

MapGet(m, k) ==
  IF MapHas(m, k) THEN (CHOOSE e \in Range(m) : e.id = k).obj ELSE 0

(***************************************************************************)
(* types.ts factories                                                      *)
(***************************************************************************)
\* The arguments a caller gives to createSwapIntent (part_005:26-33); the
\* accounts and tokens are "" or an address, the amount a decimal string
SwapRequests ==
  [user : {"", "0xu"}, fromToken : {"", "0xa"}, toToken : {"0xb"}, amount : {"0", "1"}]

\* A request as core/dex.ts makes it for two ERC-20 tokens
WellFormedRequest ==
  [user |-> "0xu", fromToken |-> "0xa", toToken |-> "0xb", amount |-> "1"]

\* The bundler's own generateFairOrderingProof (part_005:301-310), a
\* placeholder that cannot fail
mockFairOrderingProof(data) ==
  [publicSignals |-> <<data.user, data.fromToken, data.toToken, data.amount>>,
   circuit |-> "fair-ordering-v1"]

\* createSwapIntent(): a fresh id (time + random suffix, taken as never
\* repeating), the request's fields, status pending
NewSwapIntent(n, req, t) ==
  [id |-> [src |-> "intent", n |-> n], status |-> "pending", timestamp |-> t,
   user |-> req.user, fromToken |-> req.fromToken, toToken |-> req.toToken,
   fromAmount |-> req.amount, zkProof |-> <<mockFairOrderingProof(req)>>,
   deadline |-> t + INTENT_LIFETIME]

\* The intent submitUserOperation builds (part_005:95-107): id = userOp.hash,
\* no zkProof (an optional field, left undefined: the empty sequence)
NewUserOpIntent(userOp, t) ==
  [id |-> [src |-> "userOp", n |-> userOp.hash], status |-> "pending", timestamp |-> t,
   user |-> userOp.sender, fromToken |-> "", toToken |-> "", fromAmount |-> "",
   zkProof |-> <<>>, deadline |-> t + INTENT_LIFETIME]

\* UserOperations handed to submitUserOperation
UserOps ==
  [hash : UserOpHashes, sender : {"", "0xu"}, nonce : {"7"},
   callData : {"0x"}, signature : {"", "0xsig"}]

isValidUserOperation(userOp) ==
  /\ userOp.sender # ""
  /\ userOp.nonce # ""
  /\ userOp.callData # ""
  /\ userOp.signature # ""

\* createBundle(userOperations): status pending, no txHash
NewBundle(n, userOps, t) ==
  [id |-> n, userOperations |-> userOps, status |-> "pending",
   txHash |-> "none", timestamp |-> t]

(***************************************************************************)
(* SmartAccountBundler helpers                                             *)
(***************************************************************************)
getOldestIntentAge(queue, ints, t) ==
  IF Len(queue) = 0 THEN 0
  ELSE t - MinOf({ints[queue[i]].timestamp : i \in 1..Len(queue)})

shouldCreateBundle(queue, ints, t) ==
  \/ Len(queue) >= BUNDLE_SIZE
  \/ (Len(queue) > 0 /\ getOldestIntentAge(queue, ints, t) > BUNDLE_TIMEOUT)

\* bundleQueue.splice(0, BUNDLE_SIZE): the removed head ...
SpliceTaken(queue) == SubSeq(queue, 1, Min(BUNDLE_SIZE, Len(queue)))

\* Fault: slice() instead of splice(), the queue keeps the taken intents
SpliceRest_slice(queue) == queue

\* ... and what stays in the queue
SpliceRest(queue) == SubSeq(queue, Min(BUNDLE_SIZE, Len(queue)) + 1, Len(queue))

\* Fault: the new operation is put in front of the list
PushUserOp_front(userOps, op) == <<op>> \o userOps

\* userOps.push(userOp)
PushUserOp(userOps, op) == Append(userOps, op)

\* Fault: the "no user operation" early return is missing
RecordsBundle_always(userOps) == TRUE

\* "if (userOps.length === 0) return": a Bundle is created only otherwise
RecordsBundle(userOps) == Len(userOps) # 0

\* "for (const intent of intentsToBundle) { intent.status = st; pendingIntents.set(...) }"
SetStatusAll(ints, taken, st) ==
  [i \in 1..Len(ints) |->
     IF i \in Range(taken) THEN [ints[i] EXCEPT !.status = st] ELSE ints[i]]

RECURSIVE MapSetAll(_, _, _)
MapSetAll(m, ints, taken) ==
  IF Len(taken) = 0 THEN m
  ELSE MapSetAll(MapSet(m, ints[Head(taken)].id, Head(taken)), ints, Tail(taken))

\* Fault: the catch block of the assembly loop does not mark the intent
AssemblyFailedIntents_skip(ints, m) == ints

\* catch block of the assembly loop (part_005:192-197)
AssemblyFailedIntents(ints, m) == [ints EXCEPT ![m].status = "failed"]

\* getPendingIntents() (part_005:350-352): Array.from(pendingIntents.values())
getPendingIntents(map) == [i \in 1..Len(map) |-> map[i].obj]

\* Fault: the catch block leaves the member intents as they are
SubmissionFailedIntents_skip(ints, taken) == ints

\* catch block of the submission (part_005:223-235)
SubmissionFailedIntents(ints, taken) == SetStatusAll(ints, taken, "failed")

\* success branch of the submission (part_005:216-220)
SubmissionConfirmedIntents(ints, taken) == SetStatusAll(ints, taken, "executed")

(***************************************************************************)
(* Injected failures so far (bounded by MaxFaults)                         *)
(***************************************************************************)
RECURSIVE SumSeq(_)
SumSeq(s) == IF Len(s) = 0 THEN 0 ELSE Head(s) + SumSeq(Tail(s))

CloseFaults(c) ==
  Cardinality({i \in 1..Len(c.outcome) : c.outcome[i] # "ok"})
  + (IF c.submitThrew THEN 1 ELSE 0)

FaultCount == SumSeq([i \in 1..Len(closes) |-> CloseFaults(closes[i])])

\* How the assembly of one member can end:
\*   "ok":          quote and user operation were built
\*   "quoteFailed": the OKX request failed; getOKXSwap swallows the error and
\*                  returns null, the user operation is built with call data '0x'
\*   "opThrew":     createUserOperation threw (provider.getNetwork() rejected),
\*                  whatever the quote was
AssemblyOutcomes ==
  IF FaultCount < MaxFaults THEN {"ok", "quoteFailed", "opThrew"} ELSE {"ok"}

\* Whether an awaited entry-point call resolves (TRUE) or rejects (FALSE)
SettleOutcomes == IF FaultCount < MaxFaults THEN {TRUE, FALSE} ELSE {TRUE}

(***************************************************************************)
(* Initial state: a freshly constructed bundler                            *)
(***************************************************************************)
Init ==
  /\ now = 0
  /\ intents = <<>>
  /\ pendingIntents = <<>>
  /\ bundleQueue = <<>>
  /\ activeBundles = <<>>
  /\ closes = <<>>
  /\ presented = <<>>
  /\ verdicts = <<>>
  /\ generated = <<>>
  /\ wait = NoWait

\* Time passes
TickBy(step, horizon) ==
  /\ now < horizon
  /\ now' = now + step
  /\ UNCHANGED <<bundlerVars, callerVars>>

Tick == TickBy(TimeStep, MaxTicks * TimeStep)

(***************************************************************************)
(* createBundle(), synchronous head (part_005:180-183): the early return,  *)
(* the splice and the start of the assembly loop.  It runs in the same     *)
(* slice as the admission that called it.                                  *)
(***************************************************************************)
StartClose(queue, ints) ==
  IF Len(queue) = 0
  THEN /\ bundleQueue' = queue
       /\ UNCHANGED closes
  ELSE /\ bundleQueue' = SpliceRest(queue)
       /\ closes' = Append(closes,
            [taken |-> SpliceTaken(queue),
             pos |-> 0,
             userOps |-> <<>>,
             outcome |-> <<>>,
             bundle |-> 0,
             phase |-> "assembling",
             sent |-> 0,
             submitThrew |-> FALSE,
             started |-> now,
             admitted |-> Len(ints),
             bySize |-> (Len(queue) >= BUNDLE_SIZE),
             byTime |-> (getOldestIntentAge(queue, ints, now) > BUNDLE_TIMEOUT)])

\* Tail shared by createSwapIntent and submitUserOperation (part_005:69-75, 109-115)
AdmitToBundler(intent) ==
  LET obj == Len(intents) + 1
      ints1 == Append(intents, intent)
      queue1 == Append(bundleQueue, obj)
  IN /\ intents' = ints1
     /\ pendingIntents' = MapSet(pendingIntents, intent.id, obj)
     /\ IF shouldCreateBundle(queue1, ints1, now)
        THEN StartClose(queue1, ints1)
        ELSE bundleQueue' = queue1 /\ UNCHANGED closes
     /\ UNCHANGED <<now, activeBundles>>

Admit(intent) == AdmitToBundler(intent) /\ UNCHANGED callerVars

\* createSwapIntent (part_005:26-78), from the creation of the intent on
CreateSwapIntentFrom(maxIntents, requests) ==
  /\ Len(intents) < maxIntents
  /\ \E req \in requests : Admit(NewSwapIntent(Len(intents) + 1, req, now))

\* submitUserOperation (part_005:83-130)
SubmitUserOperationUpTo(maxIntents, maxUserOps) ==
  /\ Len(intents) < maxIntents
  /\ Cardinality({i \in 1..Len(intents) : intents[i].id.src = "userOp"}) < maxUserOps
  /\ \E userOp \in UserOps :
       IF isValidUserOperation(userOp)
       THEN Admit(NewUserOpIntent(userOp, now))
       ELSE UNCHANGED vars

\* The swaps of the application: well-formed requests, UserOperations with
\* hashes of their own
CreateSwapIntent == CreateSwapIntentFrom(MaxIntents, {WellFormedRequest})

SubmitUserOperation == SubmitUserOperationUpTo(MaxIntents, MaxUserOps)

\* Any caller of the two public admission methods
AdmitCreateSwapIntent == CreateSwapIntentFrom(AdmitMaxIntents, SwapRequests)

AdmitSubmitUserOperation == SubmitUserOperationUpTo(AdmitMaxIntents, AdmitMaxUserOps)

(***************************************************************************)
(* createBundle(), one iteration of the assembly loop (part_005:186-198)   *)
(* and, after the last one, lines 200-208: the early return or the         *)
(* recording of the Bundle and the call of handleOps.                      *)
(***************************************************************************)
AssembleMember(c, outcome) ==
  LET cl == closes[c]
      m == cl.taken[cl.pos + 1]
      opOk == outcome # "opThrew"
      ops1 == IF opOk
              THEN PushUserOp(cl.userOps,
                     [intent |-> m, callData |-> IF outcome = "ok" THEN "tx" ELSE "0x"])
              ELSE cl.userOps
      last == cl.pos + 1 = Len(cl.taken)
      records == last /\ RecordsBundle(ops1)
      cl1 == [cl EXCEPT !.pos = cl.pos + 1,
                        !.userOps = ops1,
                        !.outcome = Append(cl.outcome, outcome)]
  IN /\ cl.phase = "assembling"
     /\ intents' = IF opOk THEN intents ELSE AssemblyFailedIntents(intents, m)
     /\ pendingIntents' = IF opOk THEN pendingIntents
                          ELSE MapSet(pendingIntents, intents[m].id, m)
     /\ activeBundles' = IF records
                         THEN Append(activeBundles, NewBundle(Len(activeBundles) + 1, ops1, now))
                         ELSE activeBundles
     /\ closes' = [closes EXCEPT ![c] =
          IF ~last THEN cl1
          ELSE IF records
               THEN [cl1 EXCEPT !.phase = "submitting",
                                !.bundle = Len(activeBundles) + 1,
                                !.sent = cl.sent + 1]
               ELSE [cl1 EXCEPT !.phase = "done"]]
     /\ UNCHANGED <<now, bundleQueue, callerVars>>

\* catch block of createBundle (part_005:223-235)
SubmissionFailed(c) ==
  LET cl == closes[c]
  IN /\ activeBundles' = [activeBundles EXCEPT ![cl.bundle].status = "failed"]
     /\ intents' = SubmissionFailedIntents(intents, cl.taken)
     /\ pendingIntents' = MapSetAll(pendingIntents, intents, cl.taken)
     /\ closes' = [closes EXCEPT ![c].phase = "done", ![c].submitThrew = TRUE]
     /\ UNCHANGED <<now, bundleQueue, callerVars>>

\* "await this.createBundleTransaction(userOps)" settles (part_005:208)
HandleOpsSettles(c, ok) ==
  /\ closes[c].phase = "submitting"
  /\ IF ok
     THEN /\ closes' = [closes EXCEPT ![c].phase = "waiting"]
          /\ UNCHANGED <<now, intents, pendingIntents, bundleQueue, activeBundles, callerVars>>
     ELSE SubmissionFailed(c)

\* "await tx.wait()" settles (part_005:209-222)
WaitSettles(c, ok) ==
  LET cl == closes[c]
  IN /\ cl.phase = "waiting"
     /\ IF ok
        THEN /\ activeBundles' = [activeBundles EXCEPT ![cl.bundle].status = "confirmed",
                                                       ![cl.bundle].txHash = "hash"]
             /\ intents' = SubmissionConfirmedIntents(intents, cl.taken)
             /\ pendingIntents' = MapSetAll(pendingIntents, intents, cl.taken)
             /\ closes' = [closes EXCEPT ![c].phase = "done"]
             /\ UNCHANGED <<now, bundleQueue, callerVars>>
        ELSE SubmissionFailed(c)

Assemble == \E c \in 1..Len(closes) : \E outcome \in AssemblyOutcomes :
              AssembleMember(c, outcome)

HandleOps == \E c \in 1..Len(closes) : \E ok \in SettleOutcomes : HandleOpsSettles(c, ok)

Wait == \E c \in 1..Len(closes) : \E ok \in SettleOutcomes : WaitSettles(c, ok)

Next ==
  \/ Tick
  \/ CreateSwapIntent
  \/ SubmitUserOperation
  \/ Assemble
  \/ HandleOps
  \/ Wait

Spec == Init /\ [][Next]_vars

\* The bundler under arbitrary callers of its admission methods
NextAdmit ==
  \/ Tick
  \/ AdmitCreateSwapIntent
  \/ AdmitSubmitUserOperation
  \/ Assemble
  \/ HandleOps
  \/ Wait

SpecAdmit == Init /\ [][NextAdmit]_vars

\* The bundler over a longer time, for closes that overlap
CloseTick == TickBy(TimeStep, CloseMaxTicks * TimeStep)

CloseCreateSwapIntent == CreateSwapIntentFrom(CloseMaxIntents, {WellFormedRequest})

NextClose ==
  \/ CloseTick
  \/ CloseCreateSwapIntent
  \/ Assemble
  \/ HandleOps
  \/ Wait

SpecClose == Init /\ [][NextClose]_vars

\* The bundler over the life time of an intent
DeadlineTick == TickBy(DeadlineStep, DeadlineMaxTicks * DeadlineStep)

DeadlineCreateSwapIntent ==
  CreateSwapIntentFrom(DeadlineMaxIntents, {WellFormedRequest})

NextDeadline ==
  \/ DeadlineTick
  \/ DeadlineCreateSwapIntent
  \/ Assemble
  \/ HandleOps
  \/ Wait

SpecDeadline == Init /\ [][NextDeadline]_vars

(***************************************************************************)
(* libs/zk/zkProofs.ts: verification of one proof (part_003:61-79)         *)
(***************************************************************************)
\* publicSignals arrays of 0 to 3 entries
SignalLists == {<<>>, <<"t">>, <<"t", "h">>, <<"t", "h", "x">>}

ProofTimes == {0 - ProofTimeStep} \cup {k * ProofTimeStep : k \in 0..5}

\* The FairOrderingProof objects a caller may hand to verifyFairOrderingProof
VerifyProofs ==
  [isValid : BOOLEAN, publicSignals : SignalLists, timestamp : ProofTimes]

\* Fault: no check of the age
verifyFairOrderingProof_noAge(p, t) ==
  p.isValid /\ Len(p.publicSignals) = 2 /\ p.timestamp > 0

\* verifyFairOrderingProof with Date.now() = t (part_003:69-74)
verifyFairOrderingProof(p, t) ==
  /\ p.isValid
  /\ Len(p.publicSignals) = 2
  /\ p.timestamp > 0
  /\ t - p.timestamp < MAX_PROOF_AGE

\* Fault: a verified proof is marked as used
ProofAfterVerify_spent(p) == [p EXCEPT !.isValid = FALSE]

\* The proof object after a call: the function only reads it
ProofAfterVerify(p) == p

InitVerify ==
  /\ now = VerifyStart
  /\ presented \in {<<p>> : p \in VerifyProofs}
  /\ verdicts = <<>>
  /\ generated = <<>>
  /\ wait = NoWait
  /\ intents = <<>>
  /\ pendingIntents = <<>>
  /\ bundleQueue = <<>>
  /\ activeBundles = <<>>
  /\ closes = <<>>

\* Time passes between two calls
ProofTick ==
  /\ now < VerifyStart + MaxProofTicks * ProofTimeStep
  /\ now' = now + ProofTimeStep
  /\ UNCHANGED <<bundlerVars, callerVars>>

\* One call of verifyFairOrderingProof(proof)
VerifyProof ==
  /\ Len(verdicts) < MaxVerifyCalls
  /\ verdicts' = Append(verdicts,
       [at |-> now, saw |-> presented[1],
        result |-> verifyFairOrderingProof(presented[1], now)])
  /\ presented' = <<ProofAfterVerify(presented[1])>>
  /\ UNCHANGED <<now, bundlerVars, generated, wait>>

NextVerify ==
  \/ ProofTick
  \/ VerifyProof

SpecVerify == InitVerify /\ [][NextVerify]_vars

(***************************************************************************)
(* libs/zk/zkProofs.ts: the protection score of a proof (part_003:197-223) *)
(***************************************************************************)
\* Ages at, just below and beyond the two limits of the freshness bonus
ScoreAges == {0, 59999, 60000, 299999, 300000, 400000}

\* The FairOrderingProof objects a caller may hand to
\* calculateMEVProtectionScore
ScoreProofs ==
  [isValid : BOOLEAN, publicSignals : SignalLists,
   timestamp : {VerifyStart - a : a \in ScoreAges}]

\* Fault: a proof of exactly one minute still gets the highest bonus
FreshnessBonus_inclusive(age) ==
  IF age <= 60000 THEN 30 ELSE IF age < 300000 THEN 20 ELSE 10

\* The bonus for a recent timestamp (part_003:210-217)
FreshnessBonus(age) ==
  IF age < 60000 THEN 30 ELSE IF age < 300000 THEN 20 ELSE 10

\* calculateMEVProtectionScore with Date.now() = t
calculateMEVProtectionScore(p, t) ==
  LET score == (IF p.isValid THEN 50 ELSE 0)
               + FreshnessBonus(t - p.timestamp)
               + (IF Len(p.publicSignals) >= 2 THEN 20 ELSE 0)
  IN Min(score, 100)

InitScore ==
  /\ now = VerifyStart
  /\ presented \in {<<p>> : p \in ScoreProofs}
  /\ verdicts = <<>>
  /\ generated = <<>>
  /\ wait = NoWait
  /\ intents = <<>>
  /\ pendingIntents = <<>>
  /\ bundleQueue = <<>>
  /\ activeBundles = <<>>
  /\ closes = <<>>

\* One call of calculateMEVProtectionScore(proof)
ScoreProof ==
  /\ Len(verdicts) < MaxVerifyCalls
  /\ verdicts' = Append(verdicts,
       [at |-> now, saw |-> presented[1],
        result |-> calculateMEVProtectionScore(presented[1], now)])
  /\ UNCHANGED <<now, bundlerVars, presented, generated, wait>>

NextScore ==
  \/ ProofTick
  \/ ScoreProof

SpecScore == InitScore /\ [][NextScore]_vars

(***************************************************************************)
(* libs/zk/zkProofs.ts: verification of a list of proofs (part_003:173-192)*)
(***************************************************************************)
OrderingProofs ==
  [isValid : BOOLEAN, publicSignals : {<<"t", "h">>},
   timestamp : {k * ProofTimeStep : k \in 1..3}]

ProofLists == UNION {[1..n -> OrderingProofs] : n \in 0..MaxBatch}

\* Array.prototype.sort with (a, b) => a.timestamp - b.timestamp: a stable
\* sort, here by insertion behind the entries that are not later
InsertByTimestamp(sorted, p) ==
  LET k == Cardinality({i \in 1..Len(sorted) : sorted[i].timestamp <= p.timestamp})
  IN SubSeq(sorted, 1, k) \o <<p>> \o SubSeq(sorted, k + 1, Len(sorted))

RECURSIVE SortByTimestamp(_)
SortByTimestamp(proofs) ==
  IF proofs = <<>> THEN <<>>
  ELSE InsertByTimestamp(SortByTimestamp(SubSeq(proofs, 1, Len(proofs) - 1)),
                         proofs[Len(proofs)])

\* verifyFairOrdering (part_003:173-192): the loop runs over the sorted copy
verifyFairOrdering(proofs) ==
  LET sortedProofs == SortByTimestamp(proofs)
  IN \A i \in 1..Len(sortedProofs) :
       /\ sortedProofs[i].isValid
       /\ ~(i > 1 /\ sortedProofs[i].timestamp < sortedProofs[i - 1].timestamp)

InitOrdering ==
  /\ now = VerifyStart
  /\ presented \in ProofLists
  /\ verdicts = <<>>
  /\ generated = <<>>
  /\ wait = NoWait
  /\ intents = <<>>
  /\ pendingIntents = <<>>
  /\ bundleQueue = <<>>
  /\ activeBundles = <<>>
  /\ closes = <<>>

\* One call of verifyFairOrdering(proofs)
VerifyOrdering ==
  /\ Len(verdicts) < 1
  /\ verdicts' = Append(verdicts,
       [at |-> now, saw |-> presented, result |-> verifyFairOrdering(presented)])
  /\ UNCHANGED <<now, bundlerVars, presented, generated, wait>>

NextOrdering == VerifyOrdering

SpecOrdering == InitOrdering /\ [][NextOrdering]_vars

(***************************************************************************)
(* libs/zk/zkProofs.ts: generation of a proof (part_003:20-56).  Strings   *)
(* are sequences of characters.                                            *)
(***************************************************************************)
DecimalDigits == {"0", "1", "2", "3", "4", "5", "6", "7", "8", "9"}

HexDigits == DecimalDigits \cup {"a", "b", "c", "d", "e", "f"}

AllIn(str, chars) == \A i \in 1..Len(str) : str[i] \in chars

\* BigInt(string) throws a SyntaxError unless the string is empty (0n), a
\* decimal integer with an optional sign, or a 0x literal
BigIntThrows(str) ==
  ~ \/ str = <<>>
    \/ AllIn(str, DecimalDigits)
    \/ Len(str) >= 2 /\ str[1] \in {"+", "-"} /\ AllIn(Tail(str), DecimalDigits)
    \/ Len(str) >= 3 /\ str[1] = "0" /\ str[2] \in {"x", "X"}
                     /\ AllIn(SubSeq(str, 3, Len(str)), HexDigits)

\* String.prototype.substring(from) with 0-based from
Substring(str, from) == SubSeq(str, from + 1, Len(str))

\* Math.random().toString(36) for 0.5, 0.25 and two longer fractions
RandomDraws ==
  { <<"0", ".", "i">>,
    <<"0", ".", "9">>,
    <<"0", ".", "4", "f", "z", "y", "o", "8", "2", "m">>,
    <<"0", ".", "8", "k", "q", "3", "x", "7", "1", "b">> }

\* FairOrderingInput objects: "", an address, an integer and a decimal amount
ProofInputs ==
  [userAddress : {<<>>, <<"0", "x", "1">>},
   fromToken : {<<>>, <<"0", "x", "a">>},
   toToken : {<<>>, <<"0", "x", "b">>},
   amount : {<<>>, <<"5">>, <<"1", ".", "5">>}]

\* generateFairOrderingProof(input) at Date.now() = t, with r the value
\* Math.random() gives for the nullifier; proof is <<>> when the call throws
generateFairOrderingProof(input, t, r) ==
  IF \/ BigIntThrows(input.userAddress)
     \/ BigIntThrows(input.fromToken)
     \/ BigIntThrows(input.toToken)
     \/ BigIntThrows(input.amount)
  THEN [input |-> input, random |-> r, threw |-> TRUE, proof |-> <<>>]
  ELSE [input |-> input, random |-> r, threw |-> FALSE,
        proof |-> << [isValid |-> TRUE,
                      publicSignals |-> <<"t", "h">>,
                      timestamp |-> t,
                      nullifier |-> <<"nullifier_">> \o Substring(r, 7)] >>]

InitGenerate ==
  /\ now = VerifyStart
  /\ presented = <<>>
  /\ verdicts = <<>>
  /\ generated = <<>>
  /\ wait = NoWait
  /\ intents = <<>>
  /\ pendingIntents = <<>>
  /\ bundleQueue = <<>>
  /\ activeBundles = <<>>
  /\ closes = <<>>

\* One call of generateFairOrderingProof, for a new swap; Math.random()
\* gives a value it has not given before
GenerateProof ==
  /\ Len(generated) < MaxProofs
  /\ \E input \in ProofInputs :
       \E r \in RandomDraws \ {generated[k].random : k \in 1..Len(generated)} :
         generated' = Append(generated, generateFairOrderingProof(input, now, r))
  /\ UNCHANGED <<now, bundlerVars, presented, verdicts, wait>>

NextGenerate == GenerateProof

SpecGenerate == InitGenerate /\ [][NextGenerate]_vars

(***************************************************************************)
(* createSwapIntent with the proof service of zkProofs.ts in the place of  *)
(* the bundler's placeholder, as the older variant of the bundler calls it *)
(* (part_004:33-39): the await of generateFairOrderingProof comes first,   *)
(* and its rejection ends createSwapIntent.                                *)
(***************************************************************************)
RequestOf(input) ==
  [user |-> input.userAddress, fromToken |-> input.fromToken,
   toToken |-> input.toToken, amount |-> input.amount]

CreateSwapIntentProved ==
  /\ Len(generated) < MaxProofs
  /\ \E input \in ProofInputs :
       \E r \in RandomDraws \ {generated[k].random : k \in 1..Len(generated)} :
         LET g == generateFairOrderingProof(input, now, r)
         IN /\ generated' = Append(generated, g)
            /\ IF g.threw
               THEN UNCHANGED <<now, bundlerVars>>
               ELSE AdmitToBundler(
                      [NewSwapIntent(Len(intents) + 1, RequestOf(input), now)
                         EXCEPT !.zkProof = g.proof])
  /\ UNCHANGED <<presented, verdicts, wait>>

NextProved ==
  \/ Tick
  \/ CreateSwapIntentProved
  \/ Assemble
  \/ HandleOps
  \/ Wait

SpecProved == Init /\ [][NextProved]_vars

(***************************************************************************)
(* core/dex.ts: the promise executeSmartAccountSwap returns (lines         *)
(* 191-211), for one intent that createSwapIntent has returned.  A close   *)
(* that createSwapIntent itself started has ended by then; otherwise the   *)
(* intent waits in the queue for the close of a later admission.           *)
(***************************************************************************)
\* getIntent(id) (part_005:358-360)
getIntent(id) == MapGet(pendingIntents, id)

\* A promise settles once: later calls of resolve and reject do nothing
Settle(w, result, t) ==
  IF w.outcome = "pending"
  THEN [w EXCEPT !.outcome = result, !.settledAt = t]
  ELSE w

\* Fault: the timeout is never due
TimeoutDue_never(elapsed) == FALSE

\* setTimeout(..., 30000) is due
TimeoutDue(elapsed) == elapsed = WAIT_TIMEOUT

InitWait ==
  /\ now = 0
  /\ \E st \in {"pending", "executed", "failed"} :
       /\ intents = <<[NewSwapIntent(1, WellFormedRequest, 0) EXCEPT !.status = st]>>
       /\ bundleQueue = IF st = "pending" THEN <<1>> ELSE <<>>
  /\ pendingIntents = <<[id |-> [src |-> "intent", n |-> 1], obj |-> 1]>>
  /\ activeBundles = <<>>
  /\ closes = <<>>
  /\ presented = <<>>
  /\ verdicts = <<>>
  /\ generated = <<>>
  /\ wait = [intent |-> 1, started |-> 0, outcome |-> "pending", settledAt |-> 0,
             timeoutArmed |-> TRUE, intervalArmed |-> TRUE,
             timeoutDue |-> FALSE, pollDue |-> FALSE, call |-> <<>>]

\* The clock reaches the next multiple of the poll period once the
\* callbacks that were due have run
WaitTick ==
  /\ ~wait.timeoutDue
  /\ ~wait.pollDue
  /\ now < MaxWaitTicks * PollInterval
  /\ now' = now + PollInterval
  /\ wait' = [wait EXCEPT
       !.timeoutDue = wait.timeoutArmed /\ TimeoutDue(now' - wait.started),
       !.pollDue = wait.intervalArmed]
  /\ UNCHANGED <<bundlerVars, presented, verdicts, generated>>

\* The callback of setTimeout (core/dex.ts:192-194)
TimeoutFires ==
  /\ wait.timeoutDue
  /\ wait' = [Settle(wait, "timeout", now) EXCEPT
       !.timeoutArmed = FALSE, !.timeoutDue = FALSE]
  /\ UNCHANGED <<now, bundlerVars, presented, verdicts, generated>>

\* The callback of setInterval (core/dex.ts:196-210)
PollFires ==
  /\ wait.pollDue
  /\ LET currentIntent == getIntent(intents[wait.intent].id)
         status == intents[currentIntent].status
     IN wait' =
          IF status = "executed"
          THEN [Settle(wait, "resolved", now) EXCEPT
                  !.intervalArmed = FALSE, !.timeoutArmed = FALSE,
                  !.timeoutDue = FALSE, !.pollDue = FALSE]
          ELSE IF status = "failed"
          THEN [Settle(wait, "failed", now) EXCEPT
                  !.intervalArmed = FALSE, !.timeoutArmed = FALSE,
                  !.timeoutDue = FALSE, !.pollDue = FALSE]
          ELSE [wait EXCEPT !.pollDue = FALSE]
  /\ UNCHANGED <<now, bundlerVars, presented, verdicts, generated>>

\* A close that a later admission started takes the intent from the queue
\* and writes its status (part_005:183, 192-197, 218-221, 228-232)
CloseSettlesIntent ==
  /\ wait.intent # 0
  /\ intents[wait.intent].status \in {"pending", "failed"}
  /\ \E st \in {"executed", "failed"} :
       intents' = [intents EXCEPT ![wait.intent].status = st]
  /\ bundleQueue' = <<>>
  /\ UNCHANGED <<now, pendingIntents, activeBundles, closes, callerVars>>

NextWait ==
  \/ WaitTick
  \/ TimeoutFires
  \/ PollFires
  \/ CloseSettlesIntent

SpecWait == InitWait /\ [][NextWait]_vars

(***************************************************************************)
(* core/dex.ts: executeSmartAccountSwap from its start (lines 169-211):    *)
(* the call of createSwapIntent (part_005:26-78) and then the promise.     *)
(* A slippage is held in tenths of a percent.                              *)
(***************************************************************************)
\* What the user of the application chose: SwapParams.slippage and the
\* chain of the wallet
SwapSlippages == {5, 10, 30}

ChainIds == {1, 56, 137}

\* toTokenAmount of the quote; 0 when the request failed (part_005:52)
QuotedOutputs == {0, 1000}

\* Defaults of the parameters of createSwapIntent (part_005:31-32)
DefaultSlippage == 5

DefaultChainId == 1

\* The argument list of the call (core/dex.ts:180-186)
SwapCallArgs(userAddress, params) ==
  <<userAddress, params.fromToken, params.toToken, params.amount, params.chainId>>

\* Binding of the arguments to (userAddress, fromToken, toToken, amount,
\* slippage = 0.5, chainId = 1); the fifth argument is a number of percents
BoundSlippage(args) == IF Len(args) >= 5 THEN args[5] * 10 ELSE DefaultSlippage

BoundChainId(args) == IF Len(args) >= 6 THEN args[6] ELSE DefaultChainId

\* parseFloat(expectedOutput) * (1 - slippage / 100) (part_005:53)
MinToAmount(expectedOutput, slippage) == (expectedOutput * (1000 - slippage)) \div 1000

ExecuteSmartAccountSwap ==
  /\ wait.outcome = "none"
  /\ Len(intents) = 0
  /\ \E sl \in SwapSlippages, ch \in ChainIds, out \in QuotedOutputs :
       LET params == [fromToken |-> "0xa", toToken |-> "0xb", amount |-> "1",
                      slippage |-> sl, chainId |-> ch]
           args == SwapCallArgs("0xu", params)
           req == [user |-> args[1], fromToken |-> args[2], toToken |-> args[3],
                   amount |-> args[4]]
       IN /\ AdmitToBundler(NewSwapIntent(1, req, now))
          /\ wait' = [intent |-> 1, started |-> now, outcome |-> "pending",
                      settledAt |-> 0,
                      timeoutArmed |-> TRUE, intervalArmed |-> TRUE,
                      timeoutDue |-> FALSE, pollDue |-> FALSE,
                      call |-> << [params |-> params,
                                   quoteChainId |-> BoundChainId(args),
                                   expectedOutput |-> out,
                                   slippage |-> BoundSlippage(args),
                                   minToAmount |->
                                     MinToAmount(out, BoundSlippage(args))] >>]
  /\ UNCHANGED <<presented, verdicts, generated>>

NextSwap ==
  \/ ExecuteSmartAccountSwap
  \/ WaitTick
  \/ TimeoutFires
  \/ PollFires
  \/ CloseSettlesIntent

SpecSwap == Init /\ [][NextSwap]_vars

(***************************************************************************)
(* Vocabulary of the properties                                            *)
(***************************************************************************)
Closes == 1..Len(closes)

Bundles == 1..Len(activeBundles)

\* The intents behind the user operations of a bundle, in bundle order
BundleMembers(b) ==
  [j \in 1..Len(activeBundles[b].userOperations) |->
     activeBundles[b].userOperations[j].intent]

\* No member of the close failed in assembly (neither quote nor user operation)
NoMemberFailed(c) ==
  \A k \in 1..Len(closes[c].outcome) : closes[c].outcome[k] = "ok"

StrictlyIncreasingTimes(taken) ==
  \A j, k \in 1..Len(taken) :
    j < k => intents[taken[j]].timestamp < intents[taken[k]].timestamp

(***************************************************************************)
(* C1: every Bundle recorded by the bundler has at least 1 and at most     *)
(* BUNDLE_SIZE members, whatever admissions, assembly failures and         *)
(* submissions happened.                                                   *)
(***************************************************************************)
C1_BatchSize ==
  \A b \in Bundles :
    /\ Len(activeBundles[b].userOperations) >= 1
    /\ Len(activeBundles[b].userOperations) <= BUNDLE_SIZE

\* A full bundle has been recorded
C1_Witness ==
  \E b \in Bundles : Len(activeBundles[b].userOperations) = BUNDLE_SIZE

(***************************************************************************)
(* C2: a pending intent is closed into a bundle within BUNDLE_TIMEOUT      *)
(* (plus one polling tick) of its admission even if nothing else is        *)
(* admitted: no queued intent is older than that.                          *)
(***************************************************************************)
C2_TimeoutClose ==
  \A k \in 1..Len(bundleQueue) :
    now - intents[bundleQueue[k]].timestamp <= BUNDLE_TIMEOUT + PollInterval

(***************************************************************************)
(* C3: when the quote lookup failed for a member and the submission of     *)
(* the rest succeeded, the bundle holds only the other members, in their   *)
(* original relative order, they are executed, and the failing member is   *)
(* failed and not queued again.                                            *)
(***************************************************************************)
C3_FailureIsolation ==
  \A c \in Closes :
    LET cl == closes[c]
        bad == {cl.taken[k] : k \in {j \in 1..Len(cl.taken) : cl.outcome[j] = "quoteFailed"}}
    IN (cl.phase = "done" /\ cl.bundle # 0
        /\ activeBundles[cl.bundle].status = "confirmed")
       => /\ \A m \in bad :
               /\ intents[m].status = "failed"
               /\ m \notin Range(BundleMembers(cl.bundle))
               /\ m \notin Range(bundleQueue)
          /\ \A m \in Range(cl.taken) \ bad : intents[m].status = "executed"
          /\ \A j, k \in 1..Len(BundleMembers(cl.bundle)) :
               j < k => BundleMembers(cl.bundle)[j] < BundleMembers(cl.bundle)[k]

(***************************************************************************)
(* C4: once an intent is executed or failed its status never changes.      *)
(***************************************************************************)
C4_TerminalImmutable ==
  [][\A i \in 1..Len(intents) :
       intents[i].status \in {"executed", "failed"}
         => intents'[i].status = intents[i].status]_vars

(***************************************************************************)
(* C5: when the members of a bundle were admitted at strictly increasing   *)
(* times and none failed, the order of the bundle's user operations is     *)
(* the admission order.                                                    *)
(***************************************************************************)
C5_FifoOrder ==
  \A c \in Closes :
    LET cl == closes[c]
    IN (cl.bundle # 0 /\ NoMemberFailed(c) /\ StrictlyIncreasingTimes(cl.taken)
        /\ Len(cl.taken) <= BUNDLE_SIZE)
       => /\ BundleMembers(cl.bundle) = cl.taken
          /\ \A j, k \in 1..Len(BundleMembers(cl.bundle)) :
               j < k => BundleMembers(cl.bundle)[j] < BundleMembers(cl.bundle)[k]

\* Three intents admitted at three different times went into one bundle
C5_Witness ==
  \E c \in Closes :
    /\ closes[c].bundle # 0
    /\ NoMemberFailed(c)
    /\ Len(closes[c].taken) >= 3
    /\ StrictlyIncreasingTimes(closes[c].taken)

(***************************************************************************)
(* C6: when the size and the time condition hold together, or one close    *)
(* trigger follows another, a pending set yields exactly one Bundle: no    *)
(* intent is taken by two closes or is a member of two bundles, and a      *)
(* close records at most one bundle.                                       *)
(***************************************************************************)
C6_NoDoubleClose ==
  /\ \A c, d \in Closes :
       c # d => Range(closes[c].taken) \cap Range(closes[d].taken) = {}
  /\ \A a, b \in Bundles :
       a # b => Range(BundleMembers(a)) \cap Range(BundleMembers(b)) = {}
  /\ \A b \in Bundles :
       Cardinality({c \in Closes : closes[c].bundle = b}) = 1
  /\ \A c \in Closes :
       Range(closes[c].taken) \cap Range(bundleQueue) = {}

\* A close started with both conditions true at once and recorded its bundle
C6_Witness ==
  \E c \in Closes :
    /\ closes[c].bySize /\ closes[c].byTime
    /\ closes[c].phase = "done"
    /\ closes[c].bundle # 0

(***************************************************************************)
(* C7: a batch closed with BUNDLE_SIZE not reached holds only intents      *)
(* admitted before the age of its oldest member reached BUNDLE_TIMEOUT;    *)
(* an intent admitted later waits for the next window.                     *)
(***************************************************************************)
C7_WindowMembers ==
  \A c \in Closes :
    LET cl == closes[c]
        oldest == MinOf({intents[m].timestamp : m \in Range(cl.taken)})
    IN ~cl.bySize =>
         \A m \in Range(cl.taken) :
           intents[m].timestamp < oldest + BUNDLE_TIMEOUT

(***************************************************************************)
(* C8: shouldCreateBundle is true exactly when the queue holds at least    *)
(* BUNDLE_SIZE intents, or is not empty and its oldest intent is at least  *)
(* BUNDLE_TIMEOUT old.                                                     *)
(***************************************************************************)
C8_CloseCondition ==
  shouldCreateBundle(bundleQueue, intents, now)
    <=> \/ Len(bundleQueue) >= BUNDLE_SIZE
        \/ /\ Len(bundleQueue) > 0
           /\ getOldestIntentAge(bundleQueue, intents, now) >= BUNDLE_TIMEOUT

(***************************************************************************)
(* C9: when the submission of a bundle threw, the bundle is failed, every  *)
(* member intent is failed, the bundle was handed to the entry point once  *)
(* only and none of its intents is back in the queue.                      *)
(***************************************************************************)
C9_SubmissionFailure ==
  \A c \in Closes :
    closes[c].submitThrew =>
      /\ activeBundles[closes[c].bundle].status = "failed"
      /\ \A m \in Range(closes[c].taken) :
           intents[m].status = "failed" /\ m \notin Range(bundleQueue)
      /\ closes[c].sent = 1
      /\ closes[c].phase = "done"

\* A submission threw for a bundle of at least two members
C9_Witness ==
  \E c \in Closes :
    closes[c].submitThrew /\ Len(activeBundles[closes[c].bundle].userOperations) >= 2

(***************************************************************************)
(* C10: a bundle's status moves only pending -> submitted -> confirmed or  *)
(* to failed; the txHash is recorded when it is submitted, and member      *)
(* intents become executed only when the bundle is confirmed.              *)
(***************************************************************************)
C10_BundleLifecycle ==
  [][\A b \in Bundles :
       LET s == activeBundles[b].status
           t == activeBundles'[b].status
       IN \/ s = t
          \/ <<s, t>> \in {<<"pending", "submitted">>, <<"submitted", "confirmed">>,
                           <<"pending", "failed">>, <<"submitted", "failed">>}]_vars

(***************************************************************************)
(* C11 (as claimed): when assembly failed for every member of a closing    *)
(* batch, a Bundle for the batch is recorded and marked failed, every      *)
(* member is failed and nothing is submitted.                              *)
(***************************************************************************)
AllMembersFailed(c) ==
  /\ closes[c].pos = Len(closes[c].taken)
  /\ \A k \in 1..Len(closes[c].outcome) : closes[c].outcome[k] = "opThrew"

C20_PendingOnly ==
  LET r == getPendingIntents(pendingIntents)
      pend == {k \in 1..Len(pendingIntents) :
                 intents[pendingIntents[k].obj].status = "pending"}
  IN /\ \A k \in 1..Len(r) : intents[r[k]].status = "pending"
     /\ Len(r) = Cardinality(pend)
     /\ \A j, k \in 1..Len(r) : j < k =>
          \E a, b \in pend : a < b /\ pendingIntents[a].obj = r[j]
                                   /\ pendingIntents[b].obj = r[k]

(***************************************************************************)
(* C16: createSwapIntent rejects a request with an empty user or token     *)
(* address or a non-positive amount, and a rejected request adds nothing   *)
(* to the registry or to the queue: no intent made by createSwapIntent     *)
(* that the registry or the queue holds comes from a malformed request.    *)
(***************************************************************************)
\* parseFloat of the decimal strings the model uses as amounts
AmountValue(a) == IF a = "1" THEN 1 ELSE 0

Malformed(i) ==
  \/ i.user = ""
  \/ i.fromToken = ""
  \/ i.toToken = ""
  \/ AmountValue(i.fromAmount) <= 0

C16_RejectsMalformed ==
  \A m \in {pendingIntents[k].obj : k \in 1..Len(pendingIntents)} \cup Range(bundleQueue) :
    intents[m].id.src = "intent" => ~Malformed(intents[m])

(***************************************************************************)
(* C17: two admissions never yield the same id: the registry holds one     *)
(* entry per admitted intent, and no admission replaces the registry entry *)
(* of an earlier intent that is still in the queue.                        *)
(***************************************************************************)
C17_DistinctIds ==
  /\ \A i, j \in 1..Len(intents) : i # j => intents[i].id # intents[j].id
  /\ Len(pendingIntents) = Len(intents)
  /\ \A m \in Range(bundleQueue) :
       \E k \in 1..Len(pendingIntents) :
         pendingIntents[k].id = intents[m].id /\ pendingIntents[k].obj = m

(***************************************************************************)
(* C12: verifyFairOrderingProof returns false, and does not throw, for     *)
(* every proof whose public-signal count is not 2, whose timestamp is not  *)
(* positive, whose timestamp is more than MAX_PROOF_AGE old at the call,   *)
(* or whose isValid is false.                                              *)
(***************************************************************************)
C12_RejectsInvalid ==
  \A k \in 1..Len(verdicts) :
    LET v == verdicts[k]
        p == v.saw
    IN /\ v.result \in BOOLEAN
       /\ (\/ Len(p.publicSignals) # 2
           \/ p.timestamp <= 0
           \/ v.at - p.timestamp > MAX_PROOF_AGE
           \/ ~p.isValid) => v.result = FALSE

\* A proof that is well-formed but 400000 ms old has been refused
C12_Witness ==
  \E k \in 1..Len(verdicts) :
    LET v == verdicts[k]
    IN /\ v.saw.isValid
       /\ Len(v.saw.publicSignals) = 2
       /\ v.saw.timestamp > 0
       /\ v.at - v.saw.timestamp = 400000
       /\ v.result = FALSE

(***************************************************************************)
(* C13: verifyFairOrdering returns true only if every proof of the list is *)
(* valid and the list as presented is in non-decreasing timestamp order.   *)
(***************************************************************************)
C13_PresentedOrder ==
  \A k \in 1..Len(verdicts) :
    LET v == verdicts[k]
    IN v.result = TRUE =>
         /\ \A i \in 1..Len(v.saw) : v.saw[i].isValid
         /\ \A i, j \in 1..Len(v.saw) :
              i < j => v.saw[i].timestamp <= v.saw[j].timestamp

(***************************************************************************)
(* C14 (as claimed): any two calls of verifyFairOrderingProof on one proof *)
(* return the same result, and no call changes the proof or the bundler.   *)
(***************************************************************************)
BundlerUntouched ==
  /\ intents = <<>>
  /\ pendingIntents = <<>>
  /\ bundleQueue = <<>>
  /\ activeBundles = <<>>
  /\ closes = <<>>

ProofUntouched ==
  \A k \in 1..Len(verdicts) : verdicts[k].saw = presented[1]

Fresh(v) == v.at - v.saw.timestamp < MAX_PROOF_AGE

C18_UniqueNullifiers ==
  \A j, k \in 1..Len(generated) :
    (j # k /\ ~generated[j].threw /\ ~generated[k].threw) =>
      generated[j].proof[1].nullifier # generated[k].proof[1].nullifier

(***************************************************************************)
(* C19: generateFairOrderingProof fails with the proof-generation error    *)
(* and returns no proof whenever the user address, fromToken, toToken or   *)
(* amount of its input is empty.                                           *)
(***************************************************************************)
C19_EmptyFieldFails ==
  \A k \in 1..Len(generated) :
    LET g == generated[k]
    IN (\/ g.input.userAddress = <<>>
        \/ g.input.fromToken = <<>>
        \/ g.input.toToken = <<>>
        \/ g.input.amount = <<>>) => (g.threw /\ g.proof = <<>>)

(***************************************************************************)
(* C15: the promise of executeSmartAccountSwap settles no later than       *)
(* WAIT_TIMEOUT after its start: it resolves when a poll sees the intent   *)
(* executed, rejects when a poll sees it failed, and otherwise rejects     *)
(* with a timeout; the timeout changes no stored intent or bundle status.  *)
(***************************************************************************)
WaitSettledInTime ==
  /\ wait.outcome \in {"pending", "resolved", "failed", "timeout"}
  /\ wait.outcome = "pending" =>
       \/ now - wait.started < WAIT_TIMEOUT
       \/ now - wait.started = WAIT_TIMEOUT /\ wait.timeoutDue
  /\ wait.outcome # "pending" => wait.settledAt - wait.started <= WAIT_TIMEOUT
  /\ wait.outcome = "resolved" => intents[wait.intent].status = "executed"
  /\ wait.outcome = "failed" => intents[wait.intent].status \in {"failed", "executed"}
  /\ wait.outcome = "timeout" => wait.settledAt - wait.started = WAIT_TIMEOUT

TimeoutWritesNothing ==
  (wait.outcome = "pending" /\ wait'.outcome = "timeout") => UNCHANGED bundlerVars

C15_WaitSettles == []WaitSettledInTime /\ [][TimeoutWritesNothing]_vars

\* The wait was ended by its timeout
C15_Witness ==
  /\ wait.outcome = "timeout"
  /\ wait.settledAt - wait.started = WAIT_TIMEOUT
  /\ intents[wait.intent].status = "pending"

(***************************************************************************)
(* C21: calculateMEVProtectionScore returns 50 for a valid proof and 0     *)
(* otherwise, plus 30 for an age below 60000, 20 for an age from 60000 to  *)
(* below 300000 and 10 beyond, plus 20 for at least 2 public signals,      *)
(* capped at 100; the result lies in 0..100.                               *)
(***************************************************************************)
C21_ScoreFormula ==
  \A k \in 1..Len(verdicts) :
    LET v == verdicts[k]
        age == v.at - v.saw.timestamp
        base == IF v.saw.isValid THEN 50 ELSE 0
        bonus == CASE age < 60000 -> 30
                   [] age >= 60000 /\ age < 300000 -> 20
                   [] OTHER -> 10
        signals == IF Len(v.saw.publicSignals) >= 2 THEN 20 ELSE 0
        sum == base + bonus + signals
    IN /\ v.result = (IF sum > 100 THEN 100 ELSE sum)
       /\ v.result \in 0..100

\* A valid proof of exactly one minute with two signals scored 90
C21_Witness ==
  \E k \in 1..Len(verdicts) :
    /\ verdicts[k].saw.isValid
    /\ verdicts[k].at - verdicts[k].saw.timestamp = 60000
    /\ Len(verdicts[k].saw.publicSignals) = 2
    /\ verdicts[k].result = 90

(***************************************************************************)
(* C26: verifyFairOrderingProof accepts every proof with isValid true,     *)
(* exactly 2 public signals, a positive timestamp and an age of at most    *)
(* MAX_PROOF_AGE, the age of exactly MAX_PROOF_AGE included.               *)
(***************************************************************************)
C26_AcceptsAtLimit ==
  \A k \in 1..Len(verdicts) :
    LET v == verdicts[k]
    IN (/\ v.saw.isValid
        /\ Len(v.saw.publicSignals) = 2
        /\ v.saw.timestamp > 0
        /\ v.at - v.saw.timestamp <= MAX_PROOF_AGE) => v.result = TRUE

(***************************************************************************)
(* C29: once the promise of executeSmartAccountSwap has settled, by        *)
(* resolve, by reject on failure or by the timeout, its polling timer is   *)
(* stopped: the interval is no longer armed and no poll is due.            *)
(***************************************************************************)
C29_PollingStopped ==
  wait.outcome \in {"resolved", "failed", "timeout"} =>
    (~wait.intervalArmed /\ ~wait.pollDue)

(***************************************************************************)
(* C22: the status of an intent changes only from pending to bundled,      *)
(* from bundled to executed, from pending to failed and from bundled to    *)
(* failed; in particular an intent becomes executed only from bundled.     *)
(***************************************************************************)
StatusEdges ==
  {<<"pending", "bundled">>, <<"bundled", "executed">>,
   <<"pending", "failed">>, <<"bundled", "failed">>}

StatusStepAllowed ==
  \A i \in 1..Len(intents) :
    intents'[i].status # intents[i].status =>
      <<intents[i].status, intents'[i].status>> \in StatusEdges

C22_StatusPath == [][StatusStepAllowed]_vars

(***************************************************************************)
(* C23: at most one run of createBundle is in progress at any time: a      *)
(* trigger that arrives while a close awaits assembly or submission starts *)
(* no second one.                                                          *)
(***************************************************************************)
ClosesInProgress == {c \in Closes : closes[c].phase # "done"}

C23_OneCloseAtATime == Cardinality(ClosesInProgress) <= 1

(***************************************************************************)
(* C24: the members of a bundle are intents its close took from the queue  *)
(* when it began: an intent admitted while the close is in progress is not *)
(* among them, and no intent is taken by two closes or is a member of two  *)
(* bundles.                                                                *)
(***************************************************************************)
C24_MembershipFixed ==
  /\ \A c \in Closes :
       /\ \A m \in Range(closes[c].taken) : m <= closes[c].admitted
       /\ closes[c].bundle # 0 =>
            Range(BundleMembers(closes[c].bundle)) \subseteq Range(closes[c].taken)
  /\ \A c, d \in Closes :
       c # d => Range(closes[c].taken) \cap Range(closes[d].taken) = {}
  /\ \A a, b \in Bundles :
       a # b => Range(BundleMembers(a)) \cap Range(BundleMembers(b)) = {}

\* An intent was admitted while a close was in progress, that close has
\* recorded its bundle, and a later close has recorded another
C24_Witness ==
  \E c, d \in Closes :
    /\ c < d
    /\ closes[c].bundle # 0
    /\ closes[d].bundle # 0
    /\ \E m \in Range(closes[d].taken) :
         m > closes[c].admitted /\ intents[m].timestamp = closes[c].started

(***************************************************************************)
(* C27: every intent in the registry or in the queue carries the           *)
(* fair-ordering proof generated for it at admission, whether              *)
(* createSwapIntent or submitUserOperation admitted it.                    *)
(***************************************************************************)
C27_ProofAttached ==
  \A m \in {pendingIntents[k].obj : k \in 1..Len(pendingIntents)} \cup Range(bundleQueue) :
    intents[m].zkProof # <<>>

(***************************************************************************)
(* C25: a swap whose proof generation failed has a registry entry with     *)
(* status failed, is taken by no close, and leaves later swaps admissible. *)
(***************************************************************************)
IntentOf(m, input) ==
  /\ intents[m].user = input.userAddress
  /\ intents[m].fromToken = input.fromToken
  /\ intents[m].toToken = input.toToken
  /\ intents[m].fromAmount = input.amount

C25_FailedProofRecorded ==
  \A k \in 1..Len(generated) :
    generated[k].threw =>
      /\ \E e \in 1..Len(pendingIntents) :
           /\ IntentOf(pendingIntents[e].obj, generated[k].input)
           /\ intents[pendingIntents[e].obj].status = "failed"
      /\ \A c \in Closes : \A m \in Range(closes[c].taken) :
           IntentOf(m, generated[k].input) => intents[m].zkProof # <<>>

(***************************************************************************)
(* C28: in a protected swap createSwapIntent works with the caller's       *)
(* slippage and chain id: the intent records that slippage, its            *)
(* minToAmount is the expected output reduced by it, and the quote is      *)
(* requested for that chain.                                               *)
(***************************************************************************)
C28_CallerValues ==
  \A k \in 1..Len(wait.call) :
    LET c == wait.call[k]
    IN /\ c.slippage = c.params.slippage
       /\ c.minToAmount = (c.expectedOutput * (1000 - c.params.slippage)) \div 1000
       /\ c.quoteChainId = c.params.chainId

(***************************************************************************)
(* C30: no intent is submitted in a bundle after its deadline: every       *)
(* member of a bundle that was handed to the entry point had a deadline    *)
(* not before the time its close took it from the queue.                   *)
(***************************************************************************)
C30_DeadlineRespected ==
  \A c \in Closes :
    (closes[c].sent > 0 /\ closes[c].bundle # 0) =>
      \A m \in Range(BundleMembers(closes[c].bundle)) :
        closes[c].started <= intents[m].deadline

====
